---- MODULE Spec2Model ----
(***************************************************************************)
(* Model of the video transcription tool: transcriber.py (VideoTranscriber *)
(* and its command-line main) and audio_extractor.py (command-line main).  *)
(*                                                                         *)
(* Paths are sequences of tokens: "/" is the separator, "." the extension  *)
(* separator, every other token stands for a non-empty run of characters   *)
(* holding neither.  Times are fixed-point thousandths of a second on      *)
(* input and hundredths on output.  Texts are sequences of characters,     *)
(* " " being whitespace.                                                   *)
(***************************************************************************)
EXTENDS Integers, Sequences, FiniteSets, TLC

(***************************************************************************)
(* Bounds of the model.                                                    *)
(***************************************************************************)
MaxPathLen == 3
MaxSegs == 2
MaxTextLen == 2
MaxCalls == 2

(***************************************************************************)
(* Sequences over a set S of length at most n.                             *)
(***************************************************************************)
SeqsUpTo(S, n) == UNION {[1..k -> S] : k \in 0..n}

(***************************************************************************)
(* os.path helpers (posixpath / genericpath), as the workflow uses them.   *)
(***************************************************************************)
Sep == "/"
Dot == "."

\* str.rfind: the last index of token c in p, 0 when absent
\* (Python's -1 shifted to 1-based indexing).
RFind(p, c) ==
    LET I == {i \in 1..Len(p) : p[i] = c}
    IN  IF I = {} THEN 0 ELSE CHOOSE i \in I : \A j \in I : j <= i

\* os.getcwd(): the absolute working directory, one opaque token.
Cwd == <<"cwd">>

\* os.path.join(a, b)
join(a, b) ==
    IF Len(b) > 0 /\ b[1] = Sep THEN b
    ELSE IF a = <<>> \/ a[Len(a)] = Sep THEN a \o b
    ELSE a \o <<Sep>> \o b

\* os.path.basename(p): what follows the last separator.
basename_keep_dirs(p) == p
basename(p) == SubSeq(p, RFind(p, Sep) + 1, Len(p))

\* str.rstrip('/')
RECURSIVE RStripSep(_)
RStripSep(p) ==
    IF p # <<>> /\ p[Len(p)] = Sep THEN RStripSep(SubSeq(p, 1, Len(p) - 1)) ELSE p

\* os.path.dirname(p)
dirname(p) ==
    LET head == SubSeq(p, 1, RFind(p, Sep))
    IN  IF head # <<>> /\ (\E i \in 1..Len(head) : head[i] # Sep)
        THEN RStripSep(head) ELSE head

\* os.path.splitext(p)[0]: the extension starts at the last dot of the last
\* component, unless only dots precede it in that component.
splitext(p) ==
    LET sepIndex == RFind(p, Sep)
        dotIndex == RFind(p, Dot)
    IN  IF dotIndex > sepIndex
           /\ \E i \in (sepIndex + 1)..(dotIndex - 1) : p[i] # Dot
        THEN SubSeq(p, 1, dotIndex - 1)
        ELSE p

\* A path naming a directory entry that cannot be replaced by a file:
\* an empty last component, "." or "..".
IsDirPath(p) == basename(p) \in {<<>>, <<Dot>>, <<Dot, Dot>>}

(***************************************************************************)
(* round(x, 2) on a float.  The float nearest to k/1000 is found by long   *)
(* division to 53 significant bits (the leading bit and 52 more, round to  *)
(* nearest, ties to even); the                                             *)
(* decimal rounding is then exact on that binary value, ties to even.      *)
(***************************************************************************)
RECURSIVE NormDen(_, _)
NormDen(num, den) == IF num >= 2 * den THEN NormDen(num, 2 * den) ELSE den

RECURSIVE NormNum(_, _)
NormNum(num, den) == IF num < den THEN NormNum(2 * num, den) ELSE num

\* After n more quotient bits: <<remainder, last bit>>.
RECURSIVE DivBits(_, _, _, _)
DivBits(rem, den, last, n) ==
    IF n = 0 THEN <<rem, last>>
    ELSE IF 2 * rem >= den THEN DivBits(2 * rem - den, den, 1, n - 1)
         ELSE DivBits(2 * rem, den, 0, n - 1)

\* Sign of float(k/1000) - k/1000, for k > 0.
FloatErrSign(k) ==
    LET den == NormDen(k, 1000)
        num == NormNum(k, den)
        r   == DivBits(num - den, den, 1, 52)
    IN  IF r[1] = 0 THEN 0
        ELSE IF 2 * r[1] > den THEN 1
        ELSE IF 2 * r[1] < den THEN -1
        ELSE IF r[2] = 1 THEN 1 ELSE -1

\* round(k/1000, 2), in hundredths.
round2_truncate(k) == k \div 10
round2(k) ==
    LET q == k \div 10
        d == k % 10
    IN  IF d > 5 THEN q + 1
        ELSE IF d < 5 THEN q
        ELSE LET s == FloatErrSign(k)
             IN  IF s > 0 THEN q + 1
                 ELSE IF s < 0 THEN q
                 ELSE IF q % 2 = 1 THEN q + 1 ELSE q

(***************************************************************************)
(* Transcription results, as the transcription adapter returns them.       *)
(* A result is None or a mapping; `keys` is the mapping's key set and      *)
(* `segments` the value under "segments" (empty when the key is absent).   *)
(* A segment is a mapping too; a field whose key is absent is held at a    *)
(* default.                                                                *)
(***************************************************************************)
SegmentKeys == {"start", "end", "text"}

NoneResult == [none |-> TRUE, keys |-> {}, segments |-> <<>>]
EmptyMapping == [none |-> FALSE, keys |-> {}, segments |-> <<>>]
TextOnlyResult == [none |-> FALSE, keys |-> {"text"}, segments |-> <<>>]

Mapping(ks, segs) == [none |-> FALSE, keys |-> ks, segments |-> segs]

Segment(s, e, t) == [keys |-> SegmentKeys, start |-> s, end |-> e, text |-> t]
SegmentLacking(k) == [keys |-> SegmentKeys \ {k}, start |-> 0, end |-> 0, text |-> <<>>]

WellFormed(seg) == seg.keys = SegmentKeys

\* Python truthiness of a result: None and the empty mapping are falsy.
Truthy_always(tr) == TRUE
Truthy(tr) == ~tr.none /\ tr.keys # {}

(***************************************************************************)
(* str.strip(): leading and trailing whitespace removed.                   *)
(***************************************************************************)
Space == " "

RECURSIVE lstrip(_)
lstrip(t) == IF t # <<>> /\ t[1] = Space THEN lstrip(Tail(t)) ELSE t

RECURSIVE rstrip(_)
rstrip(t) ==
    IF t # <<>> /\ t[Len(t)] = Space THEN rstrip(SubSeq(t, 1, Len(t) - 1)) ELSE t

strip(t) == rstrip(lstrip(t))

(***************************************************************************)
(* VideoTranscriber.format_output.  The value is                           *)
(* [raised |-> an exception left the function, value |-> the list].        *)
(***************************************************************************)
formatted_segment(segment) ==
    [start    |-> round2(segment.start),
     end      |-> round2(segment.end),
     sentence |-> strip(segment.text)]

\* The for loop of format_output from segment i on, acc being
\* formatted_output so far; segment[k] on an absent key raises KeyError.
RECURSIVE format_loop(_, _, _)
format_loop(segments, i, acc) ==
    IF i > Len(segments) THEN [raised |-> FALSE, value |-> acc]
    ELSE IF ~WellFormed(segments[i]) THEN [raised |-> TRUE, value |-> <<>>]
    ELSE format_loop(segments, i + 1, Append(acc, formatted_segment(segments[i])))

RECURSIVE format_loop_skip_blank(_, _, _)
format_loop_skip_blank(segments, i, acc) ==
    IF i > Len(segments) THEN [raised |-> FALSE, value |-> acc]
    ELSE IF ~WellFormed(segments[i]) THEN [raised |-> TRUE, value |-> <<>>]
    ELSE format_loop_skip_blank(segments, i + 1,
            IF strip(segments[i].text) = <<>> THEN acc
            ELSE Append(acc, formatted_segment(segments[i])))

format_output_skip_blank(transcription_result) ==
    IF ~Truthy(transcription_result) \/ "segments" \notin transcription_result.keys
    THEN [raised |-> FALSE, value |-> <<>>]
    ELSE format_loop_skip_blank(transcription_result.segments, 1, <<>>)

format_output_unguarded(transcription_result) ==
    IF transcription_result.none \/ "segments" \notin transcription_result.keys
    THEN [raised |-> TRUE, value |-> <<>>]
    ELSE format_loop(transcription_result.segments, 1, <<>>)

format_output(transcription_result) ==
    IF ~Truthy(transcription_result) \/ "segments" \notin transcription_result.keys
    THEN [raised |-> FALSE, value |-> <<>>]
    ELSE format_loop(transcription_result.segments, 1, <<>>)

(***************************************************************************)
(* json.dumps(formatted_output, indent=2, ensure_ascii=False): an empty    *)
(* list is the two characters "[]"; a non-empty one is a bracketed block   *)
(* with one indented object per record, in list order.                     *)
(***************************************************************************)
json_dumps(records) ==
    IF records = <<>> THEN [text |-> "[]", items |-> <<>>]
    ELSE [text |-> "[\n  {...}\n]", items |-> records]

(***************************************************************************)
(* Inputs.                                                                 *)
(***************************************************************************)
\* start/end pairs in thousandths of a second.
TimePairs == {<<1005, 3000>>, <<1236, 2675>>, <<125, 1234>>}

Texts == SeqsUpTo({Space, "h"}, MaxTextLen)

Segments ==
    {Segment(p[1], p[2], t) : p \in TimePairs, t \in Texts}
        \cup {SegmentLacking(k) : k \in SegmentKeys}

\* What format_output is applied to.
FormatInputs ==
    {NoneResult, EmptyMapping, TextOnlyResult}
        \cup {Mapping({"text", "segments", "language"}, segs) :
                segs \in SeqsUpTo(Segments, MaxSegs)}

\* What the transcription adapter hands to a workflow (None is its failure).
WorkflowSegments == {Segment(1236, 2675, <<Space, "h">>), SegmentLacking("text")}

WorkflowResults ==
    {EmptyMapping, TextOnlyResult}
        \cup {Mapping({"text", "segments", "language"}, segs) :
                segs \in SeqsUpTo(WorkflowSegments, MaxSegs)}

\* Audio formats (argparse choices), one token each.
AudioFormats == {"wav", "mp3"}

\* User-supplied audio paths; <<>> is "not given".
PathTokens == {Sep, Dot, "x", "wav"}
AudioPaths == SeqsUpTo(PathTokens, MaxPathLen) \ {<<>>}

\* User-supplied JSON output names; <<>> is "not given" (None or "").
JsonNames == {<<>>, <<"o">>, <<"d", Sep, "o">>, <<"d", Sep>>}

(***************************************************************************)
(* State.                                                                  *)
(***************************************************************************)
VARIABLES
    pc,                        \* position in the running code
    mode,                      \* "transcriber", "extractor" (the two mains) or "library"
    args,                      \* arguments of the run / of the current call
    temp_dir,                  \* self.temp_dir, 0 for None
    audio_output_path,         \* the local of process_video_with_audio_save after line 280
    transcription_output_file, \* the local after line 288
    transcription_result,      \* what the transcription adapter returned
    formatted_output,          \* what format_output returned
    ret,                       \* return value of the workflow: "none", "True", "False"
    pending,                   \* exception in flight or propagated: "none", "KeyboardInterrupt", "Exception"
    exit_code,                 \* -1 while the process runs
    term,                      \* how the process ended: "running", "sys.exit", "end", "uncaught"
    tmpdirs,                   \* existing temporary directories (ids)
    tmpaudio,                  \* temporary directories holding an audio.* file
    dirs,                      \* directories made by the program
    audio,                     \* audio files on disk (paths)
    json,                      \* JSON files on disk: [path, content]
    stdout,                    \* JSON texts printed
    nextdir,                   \* the id mkdtemp hands out next
    calls,                     \* workflow invocations made in library mode
    variant,                   \* workflow of the current invocation: "none", "A", "B", "X"
    created,                   \* the temporary directory the current invocation made, 0 for none
    failed,                    \* adapter failure of the current invocation, "none" if none
    missing,                   \* the dependency the start-up check found missing
    intrs,                     \* positions at which a user interrupt was delivered
    steps,                     \* external steps the current invocation performed
    emitted,                   \* JSON the current invocation wrote: [dest, content], dest <<>> for stdout
    cleanups,                  \* calls of cleanup() since the current invocation began
    prior                      \* outcome of the previous workflow invocation, when two are compared

vars == <<pc, mode, args, temp_dir, audio_output_path, transcription_output_file,
          transcription_result, formatted_output, ret, pending, exit_code, term,
          tmpdirs, tmpaudio, dirs, audio, json, stdout, nextdir, calls, variant,
          created, failed, missing, intrs, steps, emitted, cleanups, prior>>

fsvars == <<tmpdirs, tmpaudio, dirs, audio, json, stdout, nextdir>>
localvars == <<audio_output_path, transcription_output_file, transcription_result,
               formatted_output>>
procvars == <<exit_code, term>>

NoArgs == [output |-> <<>>, audio_output |-> <<>>, audio_format |-> "wav"]

\* No previous invocation recorded.
NoPrior == [result |-> NoneResult, ret |-> "none", contents |-> <<>>,
            steps |-> <<>>, intrs |-> {}]

Init ==
    /\ pc = "start"
    /\ mode = "none"
    /\ args = NoArgs
    /\ temp_dir = 0
    /\ audio_output_path = <<>>
    /\ transcription_output_file = <<>>
    /\ transcription_result = NoneResult
    /\ formatted_output = <<>>
    /\ ret = "none"
    /\ pending = "none"
    /\ exit_code = -1
    /\ term = "running"
    /\ tmpdirs = {}
    /\ tmpaudio = {}
    /\ dirs = {}
    /\ audio = {}
    /\ json = {}
    /\ stdout = <<>>
    /\ nextdir = 1
    /\ calls = 0
    /\ variant = "none"
    /\ created = 0
    /\ failed = "none"
    /\ missing = "none"
    /\ intrs = {}
    /\ steps = <<>>
    /\ emitted = <<>>
    /\ cleanups = 0
    /\ prior = NoPrior

(***************************************************************************)
(* Helpers of the actions.                                                 *)
(***************************************************************************)
\* shutil.rmtree(d): FileNotFoundError when d does not exist.
rmtree(d, ds) ==
    IF d \in ds THEN [raised |-> FALSE, tmpdirs |-> ds \ {d}]
    ELSE [raised |-> TRUE, tmpdirs |-> ds]

\* VideoTranscriber.cleanup
cleanup_unchecked(td, ds) ==
    IF td # 0 THEN rmtree(td, ds) ELSE [raised |-> FALSE, tmpdirs |-> ds]
cleanup(td, ds) ==
    IF td # 0 /\ td \in ds THEN rmtree(td, ds) ELSE [raised |-> FALSE, tmpdirs |-> ds]

\* Where control goes when a workflow returns or raises exc to its caller:
\* main's statement after the call or one of its except clauses; a library
\* caller takes both a value and an exception and may call again.
ReturnPc(md, exc) ==
    IF md = "library" THEN "lib_idle"
    ELSE IF exc = "KeyboardInterrupt" THEN "m_kbd"
    ELSE IF exc = "Exception" THEN "m_exc"
    ELSE "m_after"

\* open(path, 'w') + write: the file at path holds content afterwards.
WriteFile(files, path, content) ==
    {f \in files : f.path # path} \cup {[path |-> path, content |-> content]}

\* A file opened for writing and not written yet.
Partial == [text |-> "", items |-> <<>>]

\* The outcomes open(path, 'w') can have: it fails on a directory.
OpenOutcomes(path) == {ok \in BOOLEAN : IsDirPath(path) => ~ok}

\* The dependency checks of the mains: what an outcome of the probe leads to.
import_check_ignored(outcome) == "continue"
import_check(outcome) == IF outcome = "ImportError" THEN "exit" ELSE "continue"

probe_check(outcome) ==
    IF outcome \in {"CalledProcessError", "FileNotFoundError"} THEN "exit" ELSE "continue"

\* The success test of the mains: the exit code for a workflow's return value.
exit_code_for(success) == IF success = "True" THEN 0 ELSE 1

(***************************************************************************)
(* VideoTranscriber.extract_audio_to_file(video_url, output_audio_path,    *)
(* audio_format) on directories ds and audio files au, the downloader      *)
(* ending as `outcome`: "CalledProcessError", "produced" (exit 0, the file *)
(* <base_path>.<audio_format> written) or "other" (exit 0, no such file).  *)
(***************************************************************************)
expected_file(output_audio_path, audio_format) ==
    splitext(output_audio_path) \o <<Dot, audio_format>>

extract_audio_to_file(output_audio_path, audio_format, outcome, ds, au) ==
    LET output_dir == dirname(output_audio_path)
        ds1 == IF output_dir # <<>> THEN ds \cup {output_dir} ELSE ds
        expected == expected_file(output_audio_path, audio_format)
        au1 == IF outcome = "produced" THEN au \cup {expected} ELSE au
    IN  IF outcome = "CalledProcessError"
        THEN [ok |-> FALSE, why |-> "download", dirs |-> ds1, audio |-> au]
        ELSE IF expected \notin au1
        THEN [ok |-> FALSE, why |-> "missing", dirs |-> ds1, audio |-> au1]
        ELSE IF expected = output_audio_path
        THEN [ok |-> TRUE, why |-> "none", dirs |-> ds1, audio |-> au1]
        ELSE IF IsDirPath(output_audio_path)
        THEN [ok |-> FALSE, why |-> "none", dirs |-> ds1, audio |-> au1]
        ELSE [ok |-> TRUE, why |-> "none", dirs |-> ds1,
              audio |-> (au1 \ {expected}) \cup {output_audio_path}]

(***************************************************************************)
(* Process start: one of the two command-line tools parses its arguments,  *)
(* or a library user constructs a VideoTranscriber.                        *)
(***************************************************************************)
\* transcriber.main: parse_args succeeded.
TranscriberParse ==
    /\ pc = "start"
    /\ UNCHANGED prior
    /\ \E a \in AudioPaths \cup {<<>>}, o \in JsonNames, f \in AudioFormats :
          args' = [output |-> o, audio_output |-> a, audio_format |-> f]
    /\ mode' = "transcriber"
    /\ pc' = "m_import"
    /\ UNCHANGED <<temp_dir, localvars, ret, pending, procvars, fsvars, calls,
                   variant, created, failed, missing, intrs, steps, emitted, cleanups>>

\* audio_extractor.main: parse_args succeeded (-o is required, may be "").
ExtractorParse ==
    /\ pc = "start"
    /\ UNCHANGED prior
    /\ \E a \in AudioPaths \cup {<<>>}, f \in AudioFormats :
          args' = [output |-> <<>>, audio_output |-> a, audio_format |-> f]
    /\ mode' = "extractor"
    /\ pc' = "x_probe"
    /\ UNCHANGED <<temp_dir, localvars, ret, pending, procvars, fsvars, calls,
                   variant, created, failed, missing, intrs, steps, emitted, cleanups>>

\* Either main: argparse rejects the command line and exits with status 2.
ArgumentError ==
    /\ pc = "start"
    /\ UNCHANGED prior
    /\ \E md \in {"transcriber", "extractor"} : mode' = md
    /\ pc' = "done"
    /\ exit_code' = 2
    /\ term' = "sys.exit"
    /\ UNCHANGED <<args, temp_dir, localvars, ret, pending, fsvars, calls,
                   variant, created, failed, missing, intrs, steps, emitted, cleanups>>

\* example_usage.py: VideoTranscriber(...) constructed by a program.
LibraryStart ==
    /\ pc = "start"
    /\ UNCHANGED prior
    /\ mode' = "library"
    /\ temp_dir' = 0
    /\ pc' = "lib_idle"
    /\ UNCHANGED <<args, localvars, ret, pending, procvars, fsvars, calls,
                   variant, created, failed, missing, intrs, steps, emitted, cleanups>>

\* A library user calls process_video(url, output_file) on the same object.
LibraryCall ==
    /\ pc = "lib_idle"
    /\ UNCHANGED prior
    /\ calls < MaxCalls
    /\ \E o \in JsonNames :
          args' = [output |-> o, audio_output |-> <<>>, audio_format |-> "wav"]
    /\ calls' = calls + 1
    /\ variant' = "A"
    /\ pc' = "pv_mkdtemp"
    /\ ret' = "none"
    /\ pending' = "none"
    /\ created' = 0
    /\ failed' = "none"
    /\ intrs' = {}
    /\ steps' = <<>>
    /\ emitted' = <<>>
    /\ cleanups' = 0
    /\ UNCHANGED <<mode, temp_dir, localvars, procvars, fsvars, missing>>

(***************************************************************************)
(* transcriber.main and audio_extractor.main: dependency checks.           *)
(***************************************************************************)
\* transcriber.main, `import whisper`.
ImportWhisper ==
    /\ pc = "m_import"
    /\ UNCHANGED prior
    /\ \E outcome \in {"ok", "ImportError"} :
          /\ missing' = IF outcome = "ImportError" THEN "whisper" ELSE missing
          /\ IF import_check(outcome) = "exit"
             THEN /\ pc' = "done"
                  /\ exit_code' = 1
                  /\ term' = "sys.exit"
             ELSE /\ pc' = "m_probe"
                  /\ UNCHANGED procvars
    /\ UNCHANGED <<mode, args, temp_dir, localvars, ret, pending, fsvars, calls,
                   variant, created, failed, intrs, steps, emitted, cleanups>>

\* Either main, subprocess.run(['yt-dlp', '--version'], check=True).
ProbeDownloader ==
    /\ pc \in {"m_probe", "x_probe"}
    /\ UNCHANGED prior
    /\ \E outcome \in {"ok", "CalledProcessError", "FileNotFoundError"} :
          /\ missing' = IF outcome # "ok" THEN "yt-dlp" ELSE missing
          /\ IF probe_check(outcome) = "exit"
             THEN /\ pc' = "done"
                  /\ exit_code' = 1
                  /\ term' = "sys.exit"
             ELSE /\ pc' = IF pc = "m_probe" THEN "m_call" ELSE "x_extract"
                  /\ UNCHANGED procvars
    /\ UNCHANGED <<mode, args, temp_dir, localvars, ret, pending, fsvars, calls,
                   variant, created, failed, intrs, steps, emitted, cleanups>>

\* transcriber.main: VideoTranscriber(...) and the call of one workflow.
MainCall ==
    /\ pc = "m_call"
    /\ UNCHANGED prior
    /\ temp_dir' = 0
    /\ IF args.audio_output # <<>>
       THEN variant' = "B" /\ pc' = "pvs_dirs"
       ELSE variant' = "A" /\ pc' = "pv_mkdtemp"
    /\ UNCHANGED <<mode, args, localvars, ret, pending, procvars, fsvars, calls,
                   created, failed, missing, intrs, steps, emitted, cleanups>>

(***************************************************************************)
(* Variant A: VideoTranscriber.process_video.                              *)
(***************************************************************************)
\* Lines 215-216, before the try: tempfile.mkdtemp() and the assignment.
\* OSError from mkdtemp leaves the function at once.
Mkdtemp ==
    /\ pc = "pv_mkdtemp"
    /\ UNCHANGED prior
    /\ \E outcome \in {"ok", "OSError"} :
          IF outcome = "ok"
          THEN /\ tmpdirs' = tmpdirs \cup {nextdir}
               /\ temp_dir' = nextdir
               /\ created' = nextdir
               /\ nextdir' = nextdir + 1
               /\ pc' = "pv_download"
               /\ UNCHANGED pending
          ELSE /\ pending' = "Exception"
               /\ pc' = ReturnPc(mode, "Exception")
               /\ UNCHANGED <<tmpdirs, temp_dir, created, nextdir>>
    /\ UNCHANGED <<mode, args, localvars, ret, procvars, tmpaudio, dirs, audio,
                   json, stdout, calls, variant, failed, missing, intrs, steps, emitted,
                   cleanups>>

\* download_audio: the downloader exits 0 having written audio.<ext>
\* ("file") or nothing ("nofile"), or exits non-zero.
DownloadAudio ==
    /\ pc = "pv_download"
    /\ UNCHANGED prior
    /\ steps' = Append(steps, "download")
    /\ UNCHANGED emitted
    /\ \E outcome \in {"file", "nofile", "CalledProcessError"} :
          /\ tmpaudio' = IF outcome = "file" THEN tmpaudio \cup {temp_dir} ELSE tmpaudio
          /\ IF outcome = "CalledProcessError"
             THEN /\ failed' = "download"
                  /\ ret' = "False"
                  /\ pc' = "pv_finally"
             ELSE /\ pc' = "pv_glob"
                  /\ UNCHANGED <<failed, ret>>
    /\ UNCHANGED <<mode, args, temp_dir, localvars, pending, procvars, tmpdirs,
                   dirs, audio, json, stdout, nextdir, calls, variant, created,
                   missing, intrs, cleanups>>

\* Path(self.temp_dir).glob("audio.*")
FindAudioFile ==
    /\ pc = "pv_glob"
    /\ UNCHANGED prior
    /\ steps' = Append(steps, "locate")
    /\ UNCHANGED emitted
    /\ IF temp_dir \in tmpaudio
       THEN /\ pc' = "pv_transcribe"
            /\ UNCHANGED <<failed, ret>>
       ELSE /\ failed' = "missing"
            /\ ret' = "False"
            /\ pc' = "pv_finally"
    /\ UNCHANGED <<mode, args, temp_dir, localvars, pending, procvars, fsvars,
                   calls, variant, created, missing, intrs, cleanups>>

\* transcribe_audio and the test of its result (lines 232-234); the adapter
\* returns None when the library is absent or inference raised.
TranscribeAudio ==
    /\ pc = "pv_transcribe"
    /\ UNCHANGED prior
    /\ steps' = Append(steps, "transcribe")
    /\ UNCHANGED emitted
    /\ \E tr \in WorkflowResults \cup {NoneResult} :
          /\ transcription_result' = tr
          /\ failed' = IF tr.none THEN "transcribe" ELSE failed
          /\ IF Truthy(tr)
             THEN pc' = "pv_format" /\ UNCHANGED ret
             ELSE pc' = "pv_finally" /\ ret' = "False"
    /\ UNCHANGED <<mode, args, temp_dir, audio_output_path,
                   transcription_output_file, formatted_output, pending, procvars,
                   fsvars, calls, variant, created, missing, intrs, cleanups>>

\* format_output (line 237); an exception it raises is caught at line 251.
FormatStep ==
    /\ pc = "pv_format"
    /\ UNCHANGED prior
    /\ LET r == format_output(transcription_result)
       IN  IF r.raised
           THEN /\ ret' = "False"
                /\ pc' = "pv_finally"
                /\ UNCHANGED formatted_output
           ELSE /\ formatted_output' = r.value
                /\ pc' = "pv_output"
                /\ UNCHANGED ret
    /\ UNCHANGED <<mode, args, temp_dir, audio_output_path,
                   transcription_output_file, transcription_result, pending,
                   procvars, fsvars, calls, variant, created, failed, missing,
                   intrs, steps, emitted, cleanups>>

\* Lines 240-249: json.dumps, then the file or standard output.
\* A failing open is caught at line 251.
OutputStep ==
    /\ pc = "pv_output"
    /\ UNCHANGED prior
    /\ steps' = Append(steps, "emit")
    /\ LET json_output == json_dumps(formatted_output)
       IN  IF args.output # <<>>
           THEN \E ok \in OpenOutcomes(args.output) :
                   /\ json' = IF ok THEN WriteFile(json, args.output, json_output) ELSE json
                   /\ emitted' = IF ok
                                 THEN Append(emitted, [dest |-> args.output, content |-> json_output])
                                 ELSE emitted
                   /\ ret' = IF ok THEN "True" ELSE "False"
                   /\ UNCHANGED stdout
           ELSE /\ stdout' = Append(stdout, json_output)
                /\ emitted' = Append(emitted, [dest |-> <<>>, content |-> json_output])
                /\ ret' = "True"
                /\ UNCHANGED json
    /\ pc' = "pv_finally"
    /\ UNCHANGED <<mode, args, temp_dir, localvars, pending, procvars, tmpdirs,
                   tmpaudio, dirs, audio, nextdir, calls, variant, created,
                   failed, missing, intrs, cleanups>>

\* The finally clause (line 257): cleanup(), then the return value or the
\* exception in flight reaches the caller.
FinallyCleanup ==
    /\ pc = "pv_finally"
    /\ UNCHANGED prior
    /\ cleanups' = cleanups + 1
    /\ LET c == cleanup(temp_dir, tmpdirs)
           exc == IF c.raised THEN "Exception" ELSE pending
       IN  /\ tmpdirs' = c.tmpdirs
           /\ tmpaudio' = tmpaudio \cap c.tmpdirs
           /\ pending' = exc
           /\ ret' = IF exc = "none" THEN ret ELSE "none"
           /\ pc' = ReturnPc(mode, exc)
    /\ UNCHANGED <<mode, args, temp_dir, localvars, procvars, dirs, audio, json,
                   stdout, nextdir, calls, variant, created, failed, missing,
                   intrs, steps, emitted>>

(***************************************************************************)
(* Variant B: VideoTranscriber.process_video_with_audio_save.  All of it   *)
(* is inside one try whose except clause returns False.                    *)
(***************************************************************************)
\* Lines 276-288: the audio and result directories and the two paths.
PrepareDirs ==
    /\ pc = "pvs_dirs"
    /\ UNCHANGED prior
    /\ \E outcome \in {"ok", "OSError"} :
          IF outcome = "ok"
          THEN LET audio_dir == join(Cwd, <<"audio">>)
                   result_dir == join(Cwd, <<"result">>)
               IN  /\ dirs' = dirs \cup {audio_dir}
                               \cup (IF args.output # <<>> THEN {result_dir} ELSE {})
                   /\ audio_output_path' = join(audio_dir, basename(args.audio_output))
                   /\ transcription_output_file' =
                         IF args.output # <<>>
                         THEN join(result_dir, basename(args.output))
                         ELSE args.output
                   /\ pc' = "pvs_extract"
                   /\ UNCHANGED ret
          ELSE /\ ret' = "False"
               /\ pc' = ReturnPc(mode, "none")
               /\ UNCHANGED <<dirs, audio_output_path, transcription_output_file>>
    /\ UNCHANGED <<mode, args, temp_dir, transcription_result, formatted_output,
                   pending, procvars, tmpdirs, tmpaudio, audio, json, stdout,
                   nextdir, calls, variant, created, failed, missing, intrs,
                   steps, emitted, cleanups>>

\* Lines 291-292: extract_audio_to_file on the path under audio/.
ExtractStep ==
    /\ pc = "pvs_extract"
    /\ UNCHANGED prior
    /\ steps' = Append(steps, "download")
    /\ UNCHANGED emitted
    /\ \E outcome \in {"produced", "other", "CalledProcessError"} :
          LET x == extract_audio_to_file(audio_output_path, args.audio_format,
                                         outcome, dirs, audio)
          IN  /\ dirs' = x.dirs
              /\ audio' = x.audio
              /\ failed' = IF x.why # "none" THEN x.why ELSE failed
              /\ IF x.ok
                 THEN pc' = "pvs_transcribe" /\ UNCHANGED ret
                 ELSE pc' = ReturnPc(mode, "none") /\ ret' = "False"
    /\ UNCHANGED <<mode, args, temp_dir, localvars, pending, procvars, tmpdirs,
                   tmpaudio, json, stdout, nextdir, calls, variant, created,
                   missing, intrs, cleanups>>

\* Lines 295-297: transcribe_local_audio (None without calling the adapter
\* when the file does not exist) and the test of its result.
TranscribeLocalAudio ==
    /\ pc = "pvs_transcribe"
    /\ UNCHANGED prior
    /\ UNCHANGED emitted
    /\ IF audio_output_path \notin audio
       THEN /\ ret' = "False"
            /\ pc' = ReturnPc(mode, "none")
            /\ failed' = "missing"
            /\ steps' = Append(steps, "locate")
            /\ UNCHANGED transcription_result
       ELSE /\ steps' = steps \o <<"locate", "transcribe">>
            /\ \E tr \in WorkflowResults \cup {NoneResult} :
                  /\ transcription_result' = tr
                  /\ failed' = IF tr.none THEN "transcribe" ELSE failed
                  /\ IF Truthy(tr)
                     THEN pc' = "pvs_format" /\ UNCHANGED ret
                     ELSE pc' = ReturnPc(mode, "none") /\ ret' = "False"
    /\ UNCHANGED <<mode, args, temp_dir, audio_output_path,
                   transcription_output_file, formatted_output, pending, procvars,
                   fsvars, calls, variant, created, missing, intrs, cleanups>>

\* format_output (line 300); an exception it raises is caught at line 314.
FormatStepSave ==
    /\ pc = "pvs_format"
    /\ UNCHANGED prior
    /\ LET r == format_output(transcription_result)
       IN  IF r.raised
           THEN /\ ret' = "False"
                /\ pc' = ReturnPc(mode, "none")
                /\ UNCHANGED formatted_output
           ELSE /\ formatted_output' = r.value
                /\ pc' = "pvs_output"
                /\ UNCHANGED ret
    /\ UNCHANGED <<mode, args, temp_dir, audio_output_path,
                   transcription_output_file, transcription_result, pending,
                   procvars, fsvars, calls, variant, created, failed, missing,
                   intrs, steps, emitted, cleanups>>

\* Line 303: json_output of process_video_with_audio_save, its own call of
\* json.dumps with the arguments of line 240.
json_output_compact(records) ==
    IF records = <<>> THEN [text |-> "[]", items |-> <<>>]
    ELSE [text |-> "[{...}]", items |-> records]
json_output_with_audio_save(records) == json_dumps(records)

\* Lines 303-312: json.dumps, then the file under result/ or standard output.
OutputStepSave ==
    /\ pc = "pvs_output"
    /\ UNCHANGED prior
    /\ steps' = Append(steps, "emit")
    /\ LET json_output == json_output_with_audio_save(formatted_output)
       IN  IF transcription_output_file # <<>>
           THEN \E ok \in OpenOutcomes(transcription_output_file) :
                   /\ json' = IF ok
                              THEN WriteFile(json, transcription_output_file, json_output)
                              ELSE json
                   /\ emitted' = IF ok
                                 THEN Append(emitted, [dest |-> transcription_output_file,
                                                       content |-> json_output])
                                 ELSE emitted
                   /\ ret' = IF ok THEN "True" ELSE "False"
                   /\ UNCHANGED stdout
           ELSE /\ stdout' = Append(stdout, json_output)
                /\ emitted' = Append(emitted, [dest |-> <<>>, content |-> json_output])
                /\ ret' = "True"
                /\ UNCHANGED json
    /\ pc' = ReturnPc(mode, "none")
    /\ UNCHANGED <<mode, args, temp_dir, localvars, pending, procvars, tmpdirs,
                   tmpaudio, dirs, audio, nextdir, calls, variant, created,
                   failed, missing, intrs, cleanups>>

(***************************************************************************)
(* transcriber.main after the workflow (lines 410-420).                    *)
(***************************************************************************)
\* `if not success: sys.exit(1)`, else main ends and the status is 0.
MainAfter ==
    /\ pc = "m_after"
    /\ UNCHANGED prior
    /\ exit_code' = exit_code_for(ret)
    /\ term' = IF exit_code_for(ret) = 0 THEN "end" ELSE "sys.exit"
    /\ pc' = "done"
    /\ UNCHANGED <<mode, args, temp_dir, localvars, ret, pending, fsvars, calls,
                   variant, created, failed, missing, intrs, steps, emitted, cleanups>>

\* The two except clauses: cleanup(), then sys.exit(1).  An exception raised
\* by cleanup() leaves main uncaught (traceback, status 1).
MainExcept ==
    /\ pc \in {"m_kbd", "m_exc"}
    /\ UNCHANGED prior
    /\ cleanups' = cleanups + 1
    /\ LET c == cleanup(temp_dir, tmpdirs)
       IN  /\ tmpdirs' = c.tmpdirs
           /\ tmpaudio' = tmpaudio \cap c.tmpdirs
           /\ term' = IF c.raised THEN "uncaught" ELSE "sys.exit"
    /\ exit_code' = 1
    /\ pc' = "done"
    /\ UNCHANGED <<mode, args, temp_dir, localvars, ret, pending, dirs, audio,
                   json, stdout, nextdir, calls, variant, created, failed,
                   missing, intrs, steps, emitted>>

(***************************************************************************)
(* audio_extractor.main after the probe (lines 64-72).                     *)
(***************************************************************************)
ExtractorRun ==
    /\ pc = "x_extract"
    /\ UNCHANGED prior
    /\ variant' = "X"
    /\ temp_dir' = 0
    /\ steps' = Append(steps, "download")
    /\ UNCHANGED emitted
    /\ \E outcome \in {"produced", "other", "CalledProcessError"} :
          LET x == extract_audio_to_file(args.audio_output, args.audio_format,
                                         outcome, dirs, audio)
              success == IF x.ok THEN "True" ELSE "False"
          IN  /\ dirs' = x.dirs
              /\ audio' = x.audio
              /\ failed' = IF x.why # "none" THEN x.why ELSE failed
              /\ ret' = success
              /\ exit_code' = exit_code_for(success)
              /\ term' = IF exit_code_for(success) = 0 THEN "end" ELSE "sys.exit"
    /\ pc' = "done"
    /\ UNCHANGED <<mode, args, localvars, pending, tmpdirs, tmpaudio, json,
                   stdout, nextdir, calls, created, missing, intrs, cleanups>>

(***************************************************************************)
(* User interrupt.  KeyboardInterrupt is raised in the running code at the *)
(* position the process is at; it is no Exception, so only `except         *)
(* KeyboardInterrupt` and `finally` clauses see it.  `side` tells whether  *)
(* the interrupted step had its effect on the file system already.         *)
(***************************************************************************)
\* The external step a position performs, <<>> if none.
StepOf(p) ==
    IF p \in {"pv_download", "pvs_extract", "x_extract"} THEN <<"download">>
    ELSE IF p \in {"pv_glob"} THEN <<"locate">>
    ELSE IF p \in {"pv_transcribe"} THEN <<"transcribe">>
    ELSE IF p \in {"pvs_transcribe"} THEN <<"locate", "transcribe">>
    ELSE IF p \in {"pv_output", "pvs_output"} THEN <<"emit">>
    ELSE <<>>

\* During a dependency check of a main, outside every try: the interrupt
\* is uncaught and the interpreter dies of SIGINT (status 130).
InterruptStartup ==
    /\ pc \in {"m_import", "m_probe", "x_probe"}
    /\ UNCHANGED prior
    /\ intrs' = intrs \cup {pc}
    /\ pending' = "KeyboardInterrupt"
    /\ exit_code' = 130
    /\ term' = "uncaught"
    /\ pc' = "done"
    /\ UNCHANGED <<mode, args, temp_dir, localvars, ret, fsvars, calls, variant,
                   created, failed, missing, steps, emitted, cleanups>>

\* During lines 215-216 of process_video, before the try is entered: before
\* the directory is made, after it is made, or after self.temp_dir is set.
\* No finally clause is active; the interrupt reaches the caller.
InterruptMkdtemp ==
    /\ pc = "pv_mkdtemp"
    /\ UNCHANGED prior
    /\ intrs' = intrs \cup {pc}
    /\ \E side \in {"before", "made", "assigned"} :
          /\ tmpdirs' = IF side = "before" THEN tmpdirs ELSE tmpdirs \cup {nextdir}
          /\ created' = IF side = "before" THEN created ELSE nextdir
          /\ nextdir' = IF side = "before" THEN nextdir ELSE nextdir + 1
          /\ temp_dir' = IF side = "assigned" THEN nextdir ELSE temp_dir
    /\ pending' = "KeyboardInterrupt"
    /\ pc' = ReturnPc(mode, "KeyboardInterrupt")
    /\ UNCHANGED <<mode, args, localvars, ret, procvars, tmpaudio, dirs, audio,
                   json, stdout, calls, variant, failed, missing, steps, emitted, cleanups>>

\* Inside the try of process_video: control passes to the finally clause
\* with the interrupt in flight.
InterruptInTry ==
    /\ pc \in {"pv_download", "pv_glob", "pv_transcribe", "pv_format", "pv_output"}
    /\ UNCHANGED prior
    /\ intrs' = intrs \cup {pc}
    /\ steps' = steps \o StepOf(pc)
    /\ \E side \in BOOLEAN :
          /\ tmpaudio' = IF side /\ pc = "pv_download"
                         THEN tmpaudio \cup {temp_dir} ELSE tmpaudio
          /\ LET opened == side /\ pc = "pv_output" /\ args.output # <<>>
                                /\ ~IsDirPath(args.output)
             IN  /\ json' = IF opened THEN WriteFile(json, args.output, Partial) ELSE json
                 /\ emitted' = IF opened
                               THEN Append(emitted, [dest |-> args.output, content |-> Partial])
                               ELSE emitted
    /\ pending' = "KeyboardInterrupt"
    /\ ret' = "none"
    /\ pc' = "pv_finally"
    /\ UNCHANGED <<mode, args, temp_dir, localvars, procvars, tmpdirs, dirs,
                   audio, stdout, nextdir, calls, variant, created, failed,
                   missing, cleanups>>

\* During cleanup() in the finally clause: rmtree has or has not removed the
\* directory; the new interrupt reaches the caller.
InterruptCleanup ==
    /\ pc = "pv_finally"
    /\ UNCHANGED prior
    /\ intrs' = intrs \cup {pc}
    /\ cleanups' = cleanups + 1
    /\ \E side \in BOOLEAN :
          LET c == IF side THEN cleanup(temp_dir, tmpdirs)
                   ELSE [raised |-> FALSE, tmpdirs |-> tmpdirs]
          IN  /\ tmpdirs' = c.tmpdirs
              /\ tmpaudio' = tmpaudio \cap c.tmpdirs
    /\ pending' = "KeyboardInterrupt"
    /\ ret' = "none"
    /\ pc' = ReturnPc(mode, "KeyboardInterrupt")
    /\ UNCHANGED <<mode, args, temp_dir, localvars, procvars, dirs, audio, json,
                   stdout, nextdir, calls, variant, created, failed, missing,
                   steps, emitted>>

\* Inside process_video_with_audio_save: `except Exception` does not catch
\* it; the interrupt reaches the caller.
InterruptSave ==
    /\ pc \in {"pvs_dirs", "pvs_extract", "pvs_transcribe", "pvs_format", "pvs_output"}
    /\ UNCHANGED prior
    /\ intrs' = intrs \cup {pc}
    /\ steps' = steps \o StepOf(pc)
    /\ \E side \in BOOLEAN :
          /\ dirs' = IF side /\ pc = "pvs_dirs"
                     THEN dirs \cup {join(Cwd, <<"audio">>)} ELSE dirs
          /\ audio' = IF side /\ pc = "pvs_extract"
                      THEN audio \cup {expected_file(audio_output_path, args.audio_format)}
                      ELSE audio
          /\ LET opened == side /\ pc = "pvs_output" /\ transcription_output_file # <<>>
                                /\ ~IsDirPath(transcription_output_file)
             IN  /\ json' = IF opened
                            THEN WriteFile(json, transcription_output_file, Partial)
                            ELSE json
                 /\ emitted' = IF opened
                               THEN Append(emitted, [dest |-> transcription_output_file,
                                                     content |-> Partial])
                               ELSE emitted
    /\ pending' = "KeyboardInterrupt"
    /\ ret' = "none"
    /\ pc' = ReturnPc(mode, "KeyboardInterrupt")
    /\ UNCHANGED <<mode, args, temp_dir, localvars, procvars, tmpdirs, tmpaudio,
                   stdout, nextdir, calls, variant, created, failed, missing,
                   cleanups>>

\* audio_extractor.main, inside its try: caught at line 74, sys.exit(1).
InterruptExtractor ==
    /\ pc = "x_extract"
    /\ UNCHANGED prior
    /\ intrs' = intrs \cup {pc}
    /\ variant' = "X"
    /\ steps' = steps \o StepOf(pc)
    /\ UNCHANGED emitted
    /\ \E side \in BOOLEAN :
          audio' = IF side
                   THEN audio \cup {expected_file(args.audio_output, args.audio_format)}
                   ELSE audio
    /\ pending' = "KeyboardInterrupt"
    /\ exit_code' = 1
    /\ term' = "sys.exit"
    /\ pc' = "done"
    /\ UNCHANGED <<mode, args, temp_dir, localvars, ret, tmpdirs, tmpaudio, dirs,
                   json, stdout, nextdir, calls, created, failed, missing,
                   cleanups>>

\* transcriber.main, inside an except clause (during its cleanup()): nothing
\* catches it; the interpreter dies of SIGINT (status 130).
InterruptHandler ==
    /\ pc \in {"m_kbd", "m_exc"}
    /\ UNCHANGED prior
    /\ intrs' = intrs \cup {pc}
    /\ cleanups' = cleanups + 1
    /\ \E side \in BOOLEAN :
          LET c == IF side THEN cleanup(temp_dir, tmpdirs)
                   ELSE [raised |-> FALSE, tmpdirs |-> tmpdirs]
          IN  /\ tmpdirs' = c.tmpdirs
              /\ tmpaudio' = tmpaudio \cap c.tmpdirs
    /\ pending' = "KeyboardInterrupt"
    /\ exit_code' = 130
    /\ term' = "uncaught"
    /\ pc' = "done"
    /\ UNCHANGED <<mode, args, temp_dir, localvars, ret, dirs, audio, json,
                   stdout, nextdir, calls, variant, created, failed, missing,
                   steps, emitted>>

(***************************************************************************)
(* The program.                                                            *)
(***************************************************************************)
Next ==
    \/ TranscriberParse
    \/ ExtractorParse
    \/ ArgumentError
    \/ LibraryStart
    \/ LibraryCall
    \/ ImportWhisper
    \/ ProbeDownloader
    \/ MainCall
    \/ Mkdtemp
    \/ DownloadAudio
    \/ FindAudioFile
    \/ TranscribeAudio
    \/ FormatStep
    \/ OutputStep
    \/ FinallyCleanup
    \/ PrepareDirs
    \/ ExtractStep
    \/ TranscribeLocalAudio
    \/ FormatStepSave
    \/ OutputStepSave
    \/ MainAfter
    \/ MainExcept
    \/ ExtractorRun
    \/ InterruptStartup
    \/ InterruptMkdtemp
    \/ InterruptInTry
    \/ InterruptCleanup
    \/ InterruptSave
    \/ InterruptExtractor
    \/ InterruptHandler

Spec == Init /\ [][Next]_vars

(***************************************************************************)
(* format_output on its own: applied once to any input of FormatInputs.    *)
(***************************************************************************)
InitFormat ==
    /\ pc = "fo_call"
    /\ mode = "format"
    /\ transcription_result \in FormatInputs
    /\ args = NoArgs
    /\ temp_dir = 0
    /\ audio_output_path = <<>>
    /\ transcription_output_file = <<>>
    /\ formatted_output = <<>>
    /\ ret = "none"
    /\ pending = "none"
    /\ exit_code = -1
    /\ term = "running"
    /\ tmpdirs = {}
    /\ tmpaudio = {}
    /\ dirs = {}
    /\ audio = {}
    /\ json = {}
    /\ stdout = <<>>
    /\ nextdir = 1
    /\ calls = 0
    /\ variant = "none"
    /\ created = 0
    /\ failed = "none"
    /\ missing = "none"
    /\ intrs = {}
    /\ steps = <<>>
    /\ emitted = <<>>
    /\ cleanups = 0
    /\ prior = NoPrior

\* formatted_output = transcriber.format_output(transcription_result)
FormatOutputCall ==
    /\ pc = "fo_call"
    /\ UNCHANGED prior
    /\ LET r == format_output(transcription_result)
       IN  /\ formatted_output' = r.value
           /\ pending' = IF r.raised THEN "Exception" ELSE "none"
           /\ ret' = IF r.raised THEN "none" ELSE "returned"
    /\ pc' = "fo_done"
    /\ UNCHANGED <<mode, args, temp_dir, audio_output_path,
                   transcription_output_file, transcription_result, procvars,
                   fsvars, calls, variant, created, failed, missing, intrs,
                   steps, emitted, cleanups>>

NextFormat == FormatOutputCall

SpecFormat == InitFormat /\ [][NextFormat]_vars

(***************************************************************************)
(* Properties.                                                             *)
(***************************************************************************)
\* Control is inside process_video.
InProcessVideo ==
    pc \in {"pv_mkdtemp", "pv_download", "pv_glob", "pv_transcribe", "pv_format",
            "pv_output", "pv_finally"}

\* Control is inside process_video_with_audio_save.
InSave ==
    pc \in {"pvs_dirs", "pvs_extract", "pvs_transcribe", "pvs_format", "pvs_output"}

\* The current workflow invocation has handed control back to its caller.
Returned == variant \in {"A", "B"} /\ ~InProcessVideo /\ ~InSave

\* C1: Variant A (process_video): once an invocation has returned control
\* (True, False, or by propagating an interrupt or another exception), for
\* every sequence of invocations on one VideoTranscriber, no temporary
\* directory an invocation created exists any more.
C1_TempDirGoneOnReturn ==
    (variant = "A" /\ ~InProcessVideo) => created \notin tmpdirs /\ tmpdirs = {}

\* C2: in both workflow variants, once an adapter has failed (downloader
\* exit status, expected audio file missing, transcription adapter returning
\* no result) the invocation emits no JSON, to a file or to standard output,
\* and does not return True; it returns False when it returns without a
\* user interrupt having been delivered.
C2_AdapterFailureNoOutput ==
    (variant \in {"A", "B"} /\ failed # "none") =>
        /\ emitted = <<>>
        /\ ret # "True"
        /\ (Returned /\ intrs = {}) => (ret = "False" /\ pending = "none")

C2_Witness ==
    /\ variant = "B"
    /\ failed = "transcribe"
    /\ pc = "m_after"
    /\ ret = "False"
    /\ "transcribe" \in {steps[i] : i \in 1..Len(steps)}

\* C3: both command-line tools end with status 0 exactly when the workflow
\* or extraction they ran reported success, and with status 1 on every
\* failure path: missing dependency, workflow returning False, user
\* interrupt, any other exception.
C3_ExitCodes ==
    (mode \in {"transcriber", "extractor"} /\ pc = "done") =>
        /\ (exit_code = 0) <=> (ret = "True")
        /\ (missing # "none" \/ ret = "False" \/ intrs # {} \/ pending # "none")
              => exit_code = 1

\* The last component of a path, stated on its own: the suffix that holds
\* no separator and is preceded by one (or by nothing).
LastComponent(p) ==
    CHOOSE b \in {SubSeq(p, i, Len(p)) : i \in 1..(Len(p) + 1)} :
        /\ \A j \in 1..Len(b) : b[j] # Sep
        /\ Len(b) = Len(p) \/ p[Len(p) - Len(b)] = Sep

\* <cwd>/<d>/<name>
UnderCwd(d, name) == <<"cwd", Sep, d, Sep>> \o name

C5_OneRecordPerSegment ==
    (/\ pc = "fo_done"
     /\ "segments" \in transcription_result.keys
     /\ \A i \in 1..Len(transcription_result.segments) :
           WellFormed(transcription_result.segments[i])) =>
        /\ pending = "none"
        /\ Len(formatted_output) = Len(transcription_result.segments)
        /\ \A i \in 1..Len(transcription_result.segments) :
              /\ formatted_output[i].sentence = strip(transcription_result.segments[i].text)
              /\ formatted_output[i].start = round2(transcription_result.segments[i].start)
              /\ formatted_output[i].end = round2(transcription_result.segments[i].end)

C5_Witness ==
    /\ pc = "fo_done"
    /\ transcription_result.segments =
          <<Segment(1236, 2675, <<Space, "h">>), Segment(1005, 3000, <<Space>>)>>
    /\ Len(formatted_output) = 2
    /\ formatted_output[1].sentence = <<"h">>
    /\ formatted_output[2].sentence = <<>>

\* C6: format_output on None, on an empty mapping or on a mapping without a
\* "segments" key returns an empty sequence and raises nothing.
C6_AbsentYieldsEmpty ==
    (/\ pc = "fo_done"
     /\ \/ transcription_result.none
        \/ "segments" \notin transcription_result.keys) =>
        /\ ret = "returned"
        /\ pending = "none"
        /\ formatted_output = <<>>

C6_Witness ==
    /\ pc = "fo_done"
    /\ transcription_result = TextOnlyResult
    /\ ret = "returned"
    /\ formatted_output = <<>>

\* C7: format_output on a malformed result (a segment lacking start, end or
\* text) returns an empty sequence rather than raising.
C7_MalformedYieldsEmpty ==
    (/\ pc = "fo_done"
     /\ \E i \in 1..Len(transcription_result.segments) :
           ~WellFormed(transcription_result.segments[i])) =>
        /\ pending = "none"
        /\ formatted_output = <<>>

\* C8: in both variants, when the download succeeded and the transcription
\* adapter returned a result (not None) whose "segments" is empty or absent,
\* the invocation, once returned without interrupt, has reached its output
\* step, and what it emitted is the text "[]".
C8_EmptyResultEmitsBrackets ==
    (/\ Returned
     /\ intrs = {}
     /\ "transcribe" \in {steps[i] : i \in 1..Len(steps)}
     /\ ~transcription_result.none
     /\ transcription_result.segments = <<>>) =>
        /\ "emit" \in {steps[i] : i \in 1..Len(steps)}
        /\ \A i \in 1..Len(emitted) : emitted[i].content.text = "[]"
        /\ ret = "True" => Len(emitted) = 1

\* C9: when a required tool or library is found missing (whisper not
\* importable, yt-dlp absent or failing its version probe) the tool has
\* exited non-zero and has done no work: no workflow started, no temporary,
\* audio or result directory made, no download attempted, nothing written.
C9_MissingDependencyNoWork ==
    missing # "none" =>
        /\ pc = "done"
        /\ exit_code \notin {-1, 0}
        /\ variant = "none"
        /\ temp_dir = 0
        /\ nextdir = 1
        /\ tmpdirs = {} /\ tmpaudio = {} /\ dirs = {} /\ audio = {}
        /\ json = {} /\ stdout = <<>>
        /\ steps = <<>> /\ emitted = <<>>

C9_Witness ==
    /\ missing = "whisper"
    /\ mode = "transcriber"
    /\ pc = "done"
    /\ exit_code = 1
    /\ args.audio_output # <<>>

\* The positions of a running workflow at which C10 places the interrupt.
WorkflowStepPcs ==
    {"pv_download", "pv_glob", "pv_transcribe", "pv_format", "pv_output",
     "pvs_dirs", "pvs_extract", "pvs_transcribe", "pvs_format", "pvs_output"}

\* C10: transcription tool: when a user interrupt arrived while a workflow
\* was running (download, file discovery, transcription, output), the
\* process has, at exit, run cleanup (in Variant A twice, by the workflow
\* and by main, the temporary directory being gone), raised no error in
\* doing so, and exits through sys.exit with a non-zero status.
C10_InterruptCleansUp ==
    (/\ mode = "transcriber"
     /\ pc = "done"
     /\ intrs # {}
     /\ intrs \subseteq WorkflowStepPcs) =>
        /\ exit_code = 1
        /\ term = "sys.exit"
        /\ cleanups >= 1
        /\ variant = "A" => (cleanups = 2 /\ created # 0 /\ tmpdirs = {})

C10_Witness ==
    /\ mode = "transcriber"
    /\ pc = "done"
    /\ variant = "A"
    /\ intrs = {"pv_transcribe"}
    /\ created # 0
    /\ tmpdirs = {}
    /\ cleanups = 2
    /\ exit_code = 1

\* Distance between two integers.
Dist(a, b) == IF a >= b THEN a - b ELSE b - a

\* h hundredths is k thousandths rounded to 2 decimal places: a hundredth
\* nearest to k, and k itself when k is a whole number of hundredths.
IsRounded2(k, h) ==
    /\ Dist(10 * h, k) <= 5
    /\ k % 10 = 0 => 10 * h = k

\* C11: format_output: for every segment the record's start and end are the
\* segment's start and end rounded to 2 decimal places (the nearest
\* hundredth of a second; 1.236 gives 1.24), a value already at 2 decimals
\* being left unchanged.
C11_RoundedToHundredths ==
    (pc = "fo_done" /\ pending = "none") =>
        \A i \in 1..Len(formatted_output) :
            /\ IsRounded2(transcription_result.segments[i].start, formatted_output[i].start)
            /\ IsRounded2(transcription_result.segments[i].end, formatted_output[i].end)

C11_Witness ==
    /\ pc = "fo_done"
    /\ Len(formatted_output) = 2
    /\ transcription_result.segments[1].start = 1236
    /\ formatted_output[1].start = 124
    /\ transcription_result.segments[2].end = 3000
    /\ formatted_output[2].end = 300
    /\ transcription_result.segments[2].start = 1005
    /\ formatted_output[2].start = 100

(***************************************************************************)
(* The two workflows one after the other, as example_usage.py runs them:   *)
(* process_video, then process_video_with_audio_save on a new              *)
(* VideoTranscriber, the outcome of the first being kept in `prior`.       *)
(***************************************************************************)
\* The JSON texts an invocation emitted, in order.
Contents(em) == [i \in 1..Len(em) |-> em[i].content]

InitEquiv ==
    /\ pc = "lib_idle"
    /\ mode = "library"
    /\ args = NoArgs
    /\ temp_dir = 0
    /\ audio_output_path = <<>>
    /\ transcription_output_file = <<>>
    /\ transcription_result = NoneResult
    /\ formatted_output = <<>>
    /\ ret = "none"
    /\ pending = "none"
    /\ exit_code = -1
    /\ term = "running"
    /\ tmpdirs = {}
    /\ tmpaudio = {}
    /\ dirs = {}
    /\ audio = {}
    /\ json = {}
    /\ stdout = <<>>
    /\ nextdir = 1
    /\ calls = 0
    /\ variant = "none"
    /\ created = 0
    /\ failed = "none"
    /\ missing = "none"
    /\ intrs = {}
    /\ steps = <<>>
    /\ emitted = <<>>
    /\ cleanups = 0
    /\ prior = NoPrior

\* example_usage: transcriber.process_video(video_url, output_file=...)
EquivCallVideo ==
    /\ pc = "lib_idle"
    /\ calls = 0
    /\ \E o \in JsonNames :
          args' = [output |-> o, audio_output |-> <<>>, audio_format |-> "wav"]
    /\ calls' = 1
    /\ variant' = "A"
    /\ pc' = "pv_mkdtemp"
    /\ UNCHANGED <<mode, temp_dir, localvars, ret, pending, procvars, fsvars,
                   created, failed, missing, intrs, steps, emitted, cleanups,
                   prior>>

\* example_audio_extraction: a new VideoTranscriber and
\* process_video_with_audio_save(video_url, audio_file, transcription_file,
\* audio_format=...).
EquivCallSave ==
    /\ pc = "lib_idle"
    /\ calls = 1
    /\ prior' = [result |-> transcription_result, ret |-> ret,
                 contents |-> Contents(emitted), steps |-> steps, intrs |-> intrs]
    /\ \E o \in JsonNames, f \in AudioFormats :
          args' = [output |-> o, audio_output |-> <<"x", Dot, "wav">>,
                   audio_format |-> f]
    /\ calls' = 2
    /\ variant' = "B"
    /\ temp_dir' = 0
    /\ pc' = "pvs_dirs"
    /\ ret' = "none"
    /\ pending' = "none"
    /\ created' = 0
    /\ failed' = "none"
    /\ intrs' = {}
    /\ steps' = <<>>
    /\ emitted' = <<>>
    /\ cleanups' = 0
    /\ UNCHANGED <<mode, localvars, procvars, fsvars, missing>>

NextEquiv ==
    \/ EquivCallVideo
    \/ EquivCallSave
    \/ Mkdtemp
    \/ DownloadAudio
    \/ FindAudioFile
    \/ TranscribeAudio
    \/ FormatStep
    \/ OutputStep
    \/ FinallyCleanup
    \/ PrepareDirs
    \/ ExtractStep
    \/ TranscribeLocalAudio
    \/ FormatStepSave
    \/ OutputStepSave
    \/ InterruptMkdtemp
    \/ InterruptInTry
    \/ InterruptCleanup
    \/ InterruptSave

SpecEquiv == InitEquiv /\ [][NextEquiv]_vars

\* An invocation reached its output step and open() failed there.
WriteFailed(st, r) == "emit" \in {st[i] : i \in 1..Len(st)} /\ r = "False"

\* The transcription adapter was invoked in an invocation with steps st.
Transcribed(st) == "transcribe" \in {st[i] : i \in 1..Len(st)}

\* C12: the two variants agree downstream of the audio: when process_video
\* and process_video_with_audio_save both got past the download, were handed
\* the same transcription result, were not interrupted and could open their
\* output, they return the same success flag and emit the same JSON text.
C12_VariantsAgree ==
    (/\ pc = "lib_idle"
     /\ calls = 2
     /\ variant = "B"
     /\ prior.intrs = {} /\ intrs = {}
     /\ Transcribed(prior.steps) /\ Transcribed(steps)
     /\ prior.result = transcription_result
     /\ ~WriteFailed(prior.steps, prior.ret) /\ ~WriteFailed(steps, ret)) =>
        /\ ret = prior.ret
        /\ Contents(emitted) = prior.contents

C12_Witness ==
    /\ pc = "lib_idle"
    /\ calls = 2
    /\ variant = "B"
    /\ prior.intrs = {} /\ intrs = {}
    /\ prior.result = transcription_result
    /\ prior.ret = "True"
    /\ ret = "True"
    /\ Len(prior.contents) = 1
    /\ Len(prior.contents[1].items) = 2
    /\ Contents(emitted) = prior.contents

\* The fixed order of the external steps of a workflow.
StepOrder == <<"download", "locate", "transcribe", "emit">>

\* C13: in every run of either variant the external steps performed are a
\* prefix of download, locate audio file, transcribe, write/print JSON (so
\* each at most once and none retried); the transcription adapter is invoked
\* only after a download that succeeded and an audio file that was found;
\* JSON is emitted only after the adapter returned a result.
C13_StepsArePrefix ==
    variant \in {"A", "B"} =>
        /\ Len(steps) <= Len(StepOrder)
        /\ steps = SubSeq(StepOrder, 1, Len(steps))
        /\ Transcribed(steps) => failed \notin {"download", "missing"}
        /\ ("emit" \in {steps[i] : i \in 1..Len(steps)} \/ emitted # <<>>) =>
              (Transcribed(steps) /\ ~transcription_result.none)

C13_Witness ==
    /\ variant = "A"
    /\ pc = "m_after"
    /\ steps = StepOrder
    /\ ret = "True"
    /\ Len(emitted) = 1

====
